---------------------------- MODULE Spec2Model ----------------------------
(***************************************************************************)
(* The four job-board extractors (hays_extract.py, job_extract.py for      *)
(* Insight Global, judge_extract.py, yoh_extract.py) as one state machine. *)
(* A run executes one script: main computes the cutoff, the collect loop   *)
(* requests pages and filters their records, the result is sorted and then *)
(* written to the text file and to the spreadsheet.                        *)
(*                                                                         *)
(* Time is counted in milliseconds.  A timestamp field of a record is      *)
(* [k |-> kind, v |-> value]: kind "ok" is a well-formed value, "missing"  *)
(* an absent key, "null" a JSON null, "bad" a wrongly formatted string.    *)
(***************************************************************************)
EXTENDS Integers, Sequences, FiniteSets, Bags, TLC

VARIABLES script, cutoff, pc, page, skip, total, max_pages, hits, recent,
          textFile, excelFile, status, exc, nreq, nrec, expected, db, psize

vars == <<script, cutoff, pc, page, skip, total, max_pages, hits, recent,
          textFile, excelFile, status, exc, nreq, nrec, expected, db, psize>>

---------------------------------------------------------------------------
(* Bounds of the model *)

\* longest page the server of Spec sends while its pages are varied
MaxPageLen == 3
\* records the server of Spec sends before its pages become TailPages
MaxRecords == 4
\* requests after which the loops without a ceiling are cut off
MaxRequests == 4
\* longest job list the Yoh endpoint sends
MaxYohJobs == 2
\* most records of one kind (newer, at the cutoff, older) a service holds
MaxRun == 2

(* Program constants *)
MAX_PAGES == 50
top == 50
DefaultSize == 20
MsPerSecond == 1000
SENTINEL == "No jobs found in the last 24 hours."
HOURS_24 == 24 * 3600 * 1000
DAYS_10 == 10 * HOURS_24
MsPerDay == 24 * 3600 * 1000

None == -1

Scripts == {"hays", "ig", "judge", "yoh"}
Paginating == {"hays", "ig", "judge"}

---------------------------------------------------------------------------
(* Inputs: the clock and the records a server can send *)

\* the instant main reads the clock, per script; the cutoff is Now - window
Now(s) == IF s = "hays" THEN DAYS_10 + 2
          ELSE IF s = "yoh" THEN HOURS_24 + MsPerDay
          ELSE HOURS_24 + 2

Window(s) == IF s = "hays" THEN DAYS_10 ELSE HOURS_24

\* raw timestamps of Hays, Insight Global and Judge records: before, at and
\* after the cutoff
RawTimes == {1, 2, 3}
\* raw changedOnUTC instants and postedDate days of Yoh records
YohInstants == {MsPerDay - 1, MsPerDay, MsPerDay + 1}
YohDays == {0, 1, 2}

Field(kind, val) == [k |-> kind, v |-> val]
Fields(vals) == {Field(x, 0) : x \in {"missing", "null", "bad"}}
                   \cup {Field("ok", t) : t \in vals}

HaysJobs == {[PostedDate |-> f] : f \in Fields(RawTimes)}
IGBlocks == {[json |-> "ok", PostedDate |-> f] : f \in Fields(RawTimes)}
               \cup {[json |-> "bad", PostedDate |-> Field("missing", 0)]}
JudgeHits == {[opened |-> f] : f \in Fields(RawTimes)}
YohJobs == {[changedOnUTC |-> f, postedDate |-> g] :
               f \in Fields(YohInstants), g \in Fields(YohDays)}

SeqsUpTo(S, n) == UNION {[1..k -> S] : k \in 0..n}

Min(a, b) == IF a < b THEN a ELSE b


---------------------------------------------------------------------------

---------------------------------------------------------------------------
(* Hays: hays_extract.py *)

\* parse_posted_date: None for a missing, null or empty field and for a
\* string fromisoformat rejects
HaysParse(raw) == IF raw.k = "ok" THEN raw.v ELSE None

\* (variant: the cutoff test left out)
HaysSkipsUnparsedOnly(posted_dt, c) == posted_dt = None

\* the test of the filter loop: a record is skipped when its date did not
\* parse or is before the cutoff
HaysSkips(posted_dt, c) == posted_dt = None \/ posted_dt < c

\* (variant: the loop ends at the first skipped record instead of going on)
RECURSIVE HaysRecentUntilSkip(_, _)
HaysRecentUntilSkip(opportunities, c) ==
    IF opportunities = <<>> THEN <<>>
    ELSE LET posted_dt == HaysParse(Head(opportunities).PostedDate)
         IN IF posted_dt = None \/ posted_dt < c THEN <<>>
            ELSE <<[posted |-> posted_dt]>>
                    \o HaysRecentUntilSkip(Tail(opportunities), c)

RECURSIVE HaysRecent(_, _)
HaysRecent(opportunities, c) ==
    IF opportunities = <<>> THEN <<>>
    ELSE LET posted_dt == HaysParse(Head(opportunities).PostedDate)
             rest == HaysRecent(Tail(opportunities), c)
         IN IF HaysSkips(posted_dt, c) THEN rest
            ELSE <<[posted |-> posted_dt]>> \o rest

\* the date of the last record of the page that has one, else None
RECURSIVE HaysOldest(_)
HaysOldest(opportunities) ==
    IF opportunities = <<>> THEN None
    ELSE LET d == HaysParse(opportunities[Len(opportunities)].PostedDate)
         IN IF d /= None THEN d
            ELSE HaysOldest(SubSeq(opportunities, 1, Len(opportunities) - 1))

\* data.get("totalCount", 0): 0 when the key is absent, None when it is null
HaysTotalCount(f) == IF f.k = "missing" THEN 0
                     ELSE IF f.k = "null" THEN None ELSE f.v

\* (variant: the test of the oldest record left out of the exit test)
HaysBreakCountOnly(oldest, c, tot, sk) == tot /= None /\ sk >= tot

\* the loop's exit test after a page was processed
HaysBreak(oldest, c, tot, sk) ==
    (oldest /= None /\ oldest < c) \/ (tot /= None /\ sk >= tot)

---------------------------------------------------------------------------
(* Insight Global: job_extract.py *)

\* parse_jobs: the blocks whose hidden JSON decodes
IGParseJobs(blocks) == SelectSeq(blocks, LAMBDA b : b.json = "ok")

\* meta.get("PostedDate", "") handed to re.search: a null value raises
\* TypeError; "" stands for no exception
IGRaises(raw) == IF raw.k = "null" THEN "TypeError" ELSE ""

\* parse_posted_date: None unless the string holds /Date(ms)/
IGParse(raw) == IF raw.k = "ok" THEN raw.v ELSE None

\* (variant: a record exactly at the cutoff is skipped too)
IGSkipsAtCutoff(posted_dt, c) == posted_dt = None \/ posted_dt <= c

IGSkips(posted_dt, c) == posted_dt = None \/ posted_dt < c

\* the loop over jobs_on_page: the records appended, and the exception a
\* record raised (the records after it are not reached)
RECURSIVE IGScan(_, _)
IGScan(jobs_on_page, c) ==
    IF jobs_on_page = <<>> THEN [out |-> <<>>, raised |-> ""]
    ELSE LET raw == Head(jobs_on_page).PostedDate
         IN IF IGRaises(raw) /= "" THEN [out |-> <<>>, raised |-> IGRaises(raw)]
            ELSE LET rest == IGScan(Tail(jobs_on_page), c)
                 IN IF IGSkips(IGParse(raw), c) THEN rest
                    ELSE [out |-> <<[posted |-> IGParse(raw)]>> \o rest.out,
                          raised |-> rest.raised]

\* fetch raises URLError, which scrape_recent_jobs catches
IGCaught(st) == st = "URLError"

\* (variant: the range runs one page too far)
IGHasNextOffByOne(p) == p <= MAX_PAGES

\* range(1, MAX_PAGES + 1) has a next page
IGHasNext(p) == p < MAX_PAGES

---------------------------------------------------------------------------
(* Judge: judge_extract.py *)

\* parse_opened(job["opened"]): KeyError for a missing key, TypeError for a
\* null or a string
JudgeRaises(raw) == IF raw.k = "missing" THEN "KeyError"
                    ELSE IF raw.k /= "ok" THEN "TypeError" ELSE ""

JudgeParse(raw) == raw.v

JudgeKeeps(opened_dt, c) == opened_dt >= c

RECURSIVE JudgeScan(_, _)
JudgeScan(hs, c) ==
    IF hs = <<>> THEN [out |-> <<>>, raised |-> ""]
    ELSE LET raw == Head(hs).opened
         IN IF JudgeRaises(raw) /= "" THEN [out |-> <<>>, raised |-> JudgeRaises(raw)]
            ELSE LET rest == JudgeScan(Tail(hs), c)
                 IN IF JudgeKeeps(JudgeParse(raw), c)
                    THEN [out |-> <<[posted |-> JudgeParse(raw)]>> \o rest.out,
                          raised |-> rest.raised]
                    ELSE rest

CeilDiv(a, b) == (a + b - 1) \div b

\* data.get("total", 0), data.get("size", 20) and
\* math.ceil(total / size) if size else 0
JudgeTotal(f) == IF f.k = "ok" THEN f.v ELSE 0
JudgeSize(f) == IF f.k = "ok" THEN f.v ELSE DefaultSize
JudgeMaxPages(tot, size) == IF size /= 0 THEN CeilDiv(tot, size) ELSE 0

\* (variant: the cutoff guard left out of the exit test)
JudgeBreakCountOnly(oldest, c, mp, p) == mp /= 0 /\ p >= mp

JudgeBreak(oldest, c, mp, p) == oldest < c \/ (mp /= 0 /\ p >= mp)

---------------------------------------------------------------------------
(* Yoh: yoh_extract.py *)

\* parse_timestamp: changedOnUTC when it parses, else postedDate
\* (dd-mm-YYYY, midnight UTC) when it parses, else None
YohParse(job) ==
    IF job.changedOnUTC.k = "ok" THEN job.changedOnUTC.v
    ELSE IF job.postedDate.k = "ok" THEN job.postedDate.v * MsPerDay
    ELSE None

YohKeeps(ts, c) == ts /= None /\ ts >= c

YohRecent(all_jobs, c) == SelectSeq(all_jobs, LAMBDA j : YohKeeps(YohParse(j), c))

\* the sort key of main; datetime.min stands in for an unparsable timestamp
YohKey(job) == IF YohParse(job) /= None THEN YohParse(job) ELSE None

---------------------------------------------------------------------------
(* Sorting: list.sort(key=..., reverse=True) is stable, so records of equal
   key keep their order of arrival *)

\* the key of the sort: j["posted"] (Hays, Insight Global), j["opened"]
\* (Judge), parse_timestamp(j) or datetime.min (Yoh, whose list holds the
\* raw jobs)
SortKey(job) == IF "posted" \in DOMAIN job THEN job.posted ELSE YohKey(job)

\* (variant: reverse=True left out, the least key first)
FirstKeyLeast(keys) == CHOOSE k \in keys : \A other \in keys : k =< other

\* the key the sort puts first: reverse=True, the greatest
FirstKey(keys) == CHOOSE k \in keys : \A other \in keys : k >= other

\* the records of s whose key is in keys, by key from FirstKey on, records
\* of one key in their order in s
RECURSIVE SortByKeys(_, _)
SortByKeys(s, keys) ==
    IF keys = {} THEN <<>>
    ELSE LET k == FirstKey(keys)
         IN SelectSeq(s, LAMBDA job : SortKey(job) = k)
               \o SortByKeys(s, keys \ {k})

SortDesc(s) == SortByKeys(s, {SortKey(s[i]) : i \in DOMAIN s})

---------------------------------------------------------------------------
(* Output rendering *)

\* strftime("%Y-%m-%d %H:%M:%SZ"): the instant cut to whole seconds; Yoh
\* writes an empty string for a job whose timestamp does not parse
PostedStr(job) == IF SortKey(job) = None THEN ""
                  ELSE ToString(SortKey(job) \div MsPerSecond) \o "Z"

\* one line of the text file: the job's fields joined by " | "
TextLine(job) == "title | summary | Posted: " \o PostedStr(job) \o " | url"

\* (variant: no sentinel, an empty file for an empty list)
TextOutputNoSentinel(jobs) == [i \in 1..Len(jobs) |-> TextLine(jobs[i])]

\* write_text / write_output: "\n".join(lines) if lines else the sentinel
TextOutput(jobs) == IF jobs = <<>> THEN <<SENTINEL>>
                    ELSE [i \in 1..Len(jobs) |-> TextLine(jobs[i])]

\* write_excel: the header row, then one row per job
ExcelRows(jobs) == <<"Title;...;Posted (UTC);URL;...">>
                      \o [i \in 1..Len(jobs) |-> "title;...;" \o PostedStr(jobs[i])]

NotWritten == [written |-> FALSE, content |-> <<>>]
Written(c) == [written |-> TRUE, content |-> c]

---------------------------------------------------------------------------
(* History kept for the properties: the timestamps, as a bag, of the records
   on fetched pages that resolve and are at or after the cutoff *)

SeqToBag(s) == [x \in {s[i] : i \in DOMAIN s} |->
                   Cardinality({i \in DOMAIN s : s[i] = x})]

\* the timestamp a record of script s carries, None when it carries none
Stamp(s, rec) ==
    IF s = "yoh" THEN YohParse(rec)
    ELSE IF s = "judge" THEN (IF rec.opened.k = "ok" THEN rec.opened.v ELSE None)
    ELSE IF s = "ig" /\ rec.json /= "ok" THEN None
    ELSE IF rec.PostedDate.k = "ok" THEN rec.PostedDate.v ELSE None

Stamps(s, recs) == [i \in 1..Len(recs) |-> Stamp(s, recs[i])]

AtOrAfter(s, recs, c) == SelectSeq(Stamps(s, recs), LAMBDA t : t /= None /\ t >= c)

---------------------------------------------------------------------------
(* The run *)

TypeOK ==
    /\ script \in Scripts
    /\ pc \in {"collect", "write_text", "write_excel", "done", "crashed"}
    /\ page \in Nat /\ skip \in Nat /\ nreq \in Nat /\ nrec \in Nat

\* main up to the call of the collect step: the cutoff is the clock minus
\* the script's window, and the loop variables have their first values
Start(s) ==
    /\ script = s
    /\ cutoff = Now(s) - Window(s)
    /\ pc = "collect"
    /\ page = IF s = "ig" THEN 1 ELSE 0
    /\ skip = 0
    /\ total = None
    /\ max_pages = 0
    /\ hits = <<>>
    /\ recent = <<>>
    /\ textFile = NotWritten
    /\ excelFile = NotWritten
    /\ status = ""
    /\ exc = ""
    /\ nreq = 0
    /\ nrec = 0
    /\ expected = EmptyBag

\* the loop is left: the list is sorted and returned to main
Return(jobs) == recent' = SortDesc(jobs) /\ pc' = "write_text" /\ exc' = exc

\* exception e leaves main: nothing after it runs
Crash(jobs, e) == recent' = jobs /\ pc' = "crashed" /\ exc' = e

\* the loop goes on to its next turn
Continue(jobs) == recent' = jobs /\ pc' = "collect" /\ exc' = exc

\* one request was sent and page came back
Fetched(pg) ==
    /\ status' = "ok"
    /\ nrec' = nrec + Len(pg)
    /\ expected' = expected (+) SeqToBag(AtOrAfter(script, pg, cutoff))

\* (variant: the exception is caught and the loop left, as Insight Global
\* does)
FailedCaught(resp) ==
    /\ resp.status /= "ok"
    /\ nreq' = nreq + 1
    /\ status' = resp.status
    /\ recent' = SortDesc(recent) /\ pc' = "write_text" /\ exc' = exc
    /\ UNCHANGED <<script, cutoff, page, skip, total, max_pages, hits,
                   textFile, excelFile, nrec, expected, db, psize>>

\* the request raised and nothing catches the exception
Failed(resp) ==
    /\ resp.status /= "ok"
    /\ nreq' = nreq + 1
    /\ status' = resp.status
    /\ Crash(recent, resp.status)
    /\ UNCHANGED <<script, cutoff, page, skip, total, max_pages, hits,
                   textFile, excelFile, nrec, expected, db, psize>>

\* hays_extract.collect_recent_jobs: one turn of the while loop
HaysStep(resp) ==
    /\ script = "hays" /\ pc = "collect"
    /\ \/ Failed(resp)
       \/ /\ resp.status = "ok"
          /\ nreq' = nreq + 1
          /\ LET opportunities == resp.opportunities
                 tot == IF total = None THEN HaysTotalCount(resp.totalCount)
                        ELSE total
                 jobs == recent \o HaysRecent(opportunities, cutoff)
                 oldest == HaysOldest(opportunities)
             IN /\ Fetched(opportunities)
                /\ hits' = opportunities
                /\ IF opportunities = <<>>
                   THEN Return(recent) /\ UNCHANGED <<total, skip>>
                   ELSE /\ total' = tot
                        /\ skip' = skip + top
                        /\ IF HaysBreak(oldest, cutoff, tot, skip + top)
                           THEN Return(jobs)
                           ELSE Continue(jobs)
          /\ UNCHANGED <<script, cutoff, page, max_pages, textFile, excelFile,
                         db, psize>>

\* job_extract.scrape_recent_jobs: one turn of the for loop
IGStep(resp) ==
    /\ script = "ig" /\ pc = "collect"
    /\ nreq' = nreq + 1
    /\ IF resp.status /= "ok"
       THEN /\ status' = resp.status
            /\ IF IGCaught(resp.status) THEN Return(recent)
               ELSE Crash(recent, resp.status)
            /\ UNCHANGED <<page, hits, nrec, expected>>
       ELSE LET jobs_on_page == IGParseJobs(resp.blocks)
                scan == IGScan(jobs_on_page, cutoff)
                page_has_newer == scan.out /= <<>>
            IN /\ Fetched(resp.blocks)
               /\ hits' = jobs_on_page
               /\ IF jobs_on_page = <<>>
                  THEN Return(recent) /\ UNCHANGED page
                  ELSE IF scan.raised /= ""
                  THEN Crash(recent \o scan.out, scan.raised) /\ UNCHANGED page
                  ELSE IF ~page_has_newer
                  THEN Return(recent \o scan.out) /\ UNCHANGED page
                  ELSE IF IGHasNext(page)
                  THEN Continue(recent \o scan.out) /\ page' = page + 1
                  ELSE Return(recent \o scan.out) /\ UNCHANGED page
    /\ UNCHANGED <<script, cutoff, skip, total, max_pages, textFile, excelFile,
                   db, psize>>

\* judge_extract.collect_recent_jobs: one turn of the while loop
JudgeStep(resp) ==
    /\ script = "judge" /\ pc = "collect"
    /\ \/ Failed(resp)
       \/ /\ resp.status = "ok"
          /\ nreq' = nreq + 1
          /\ LET scan == JudgeScan(resp.hits, cutoff)
                 oldest == JudgeParse(resp.hits[Len(resp.hits)].opened)
                 mp == JudgeMaxPages(JudgeTotal(resp.total), JudgeSize(resp.size))
             IN /\ Fetched(resp.hits)
                /\ hits' = resp.hits
                /\ IF resp.hits = <<>>
                   THEN Return(recent) /\ UNCHANGED <<page, max_pages>>
                   ELSE IF scan.raised /= ""
                   THEN Crash(recent \o scan.out, scan.raised)
                        /\ UNCHANGED <<page, max_pages>>
                   ELSE /\ max_pages' = mp
                        /\ page' = page + 1
                        /\ IF JudgeBreak(oldest, cutoff, mp, page + 1)
                           THEN Return(recent \o scan.out)
                           ELSE Continue(recent \o scan.out)
          /\ UNCHANGED <<script, cutoff, skip, total, textFile, excelFile,
                         db, psize>>

\* yoh_extract.main: the one request, the filter and the sort
YohCollect(resp) ==
    /\ script = "yoh" /\ pc = "collect"
    /\ \/ Failed(resp)
       \/ /\ resp.status = "ok"
          /\ nreq' = nreq + 1
          /\ Fetched(resp.all_jobs)
          /\ hits' = resp.all_jobs
          /\ Return(YohRecent(resp.all_jobs, cutoff))
          /\ UNCHANGED <<script, cutoff, page, skip, total, max_pages,
                         textFile, excelFile, db, psize>>

\* main: the text file is written from the returned list
WriteText ==
    /\ pc = "write_text"
    /\ textFile' = Written(TextOutput(recent))
    /\ pc' = "write_excel"
    /\ UNCHANGED <<script, cutoff, page, skip, total, max_pages, hits, recent,
                   excelFile, status, exc, nreq, nrec, expected, db, psize>>

\* main: then the spreadsheet
WriteExcel ==
    /\ pc = "write_excel"
    /\ excelFile' = Written(ExcelRows(recent))
    /\ pc' = "done"
    /\ UNCHANGED <<script, cutoff, page, skip, total, max_pages, hits, recent,
                   textFile, status, exc, nreq, nrec, expected, db, psize>>

---------------------------------------------------------------------------
(* Spec: the server may answer anything *)

Failures == {"URLError", "ConnectionResetError"}

\* a record of script s whose timestamp field is f
Rec(s, f) == IF s = "hays" THEN [PostedDate |-> f]
             ELSE IF s = "ig" THEN [json |-> "ok", PostedDate |-> f]
             ELSE [opened |-> f]

Records(s) == IF s = "hays" THEN HaysJobs
              ELSE IF s = "ig" THEN IGBlocks ELSE JudgeHits

\* the pages the server may send: any page while fewer than MaxRecords
\* records were sent, then an empty page or one record, newer or older
Pages(s) ==
    IF nrec < MaxRecords
    THEN SeqsUpTo(Records(s), Min(MaxPageLen, MaxRecords - nrec))
    ELSE {<<>>, <<Rec(s, Field("ok", 3))>>, <<Rec(s, Field("ok", 1))>>}

HaysTotals == {Field("missing", 0), Field("null", 0),
               Field("ok", top), Field("ok", 2 * top)}
JudgeTotals == {Field("missing", 0), Field("ok", 1), Field("ok", 3)}
JudgeSizes == {Field("missing", 0), Field("ok", 0), Field("ok", 1)}

HaysResponses ==
    {[status |-> "ok", opportunities |-> pg, totalCount |-> t] :
        pg \in Pages("hays"), t \in HaysTotals}
    \cup {[status |-> f, opportunities |-> <<>>, totalCount |-> Field("missing", 0)] :
            f \in Failures}

IGResponses ==
    {[status |-> "ok", blocks |-> pg] : pg \in Pages("ig")}
    \cup {[status |-> f, blocks |-> <<>>] : f \in Failures}

JudgeResponses ==
    {[status |-> "ok", hits |-> pg, total |-> t, size |-> z] :
        pg \in Pages("judge"), t \in JudgeTotals, z \in JudgeSizes}
    \cup {[status |-> f, hits |-> <<>>, total |-> Field("missing", 0),
           size |-> Field("missing", 0)] : f \in Failures}

YohResponses ==
    {[status |-> "ok", all_jobs |-> js] : js \in SeqsUpTo(YohJobs, MaxYohJobs)}
    \cup {[status |-> f, all_jobs |-> <<>>] : f \in Failures}

\* a request is sent only by the running script, while it collects; the
\* loops that have no ceiling of their own are cut off at MaxRequests
Collecting(s) == script = s /\ pc = "collect"

HaysRequest == /\ Collecting("hays") /\ nreq < MaxRequests
               /\ \E resp \in HaysResponses : HaysStep(resp)
IGRequest == /\ Collecting("ig")
             /\ \E resp \in IGResponses : IGStep(resp)
JudgeRequest == /\ Collecting("judge") /\ nreq < MaxRequests
                /\ \E resp \in JudgeResponses : JudgeStep(resp)
YohRequest == /\ Collecting("yoh")
              /\ \E resp \in YohResponses : YohCollect(resp)

Init == /\ \E s \in Scripts : Start(s)
        /\ db = <<>>
        /\ psize = 0

Next == \/ HaysRequest
        \/ IGRequest
        \/ JudgeRequest
        \/ YohRequest
        \/ WriteText
        \/ WriteExcel

Spec == Init /\ [][Next]_vars

---------------------------------------------------------------------------
(* SpecNF: a service that holds a list of records, newest first, all with
   well-formed timestamps, serves it in pages of psize records and reports
   its counts truthfully; no request fails *)

\* run lengths of equal timestamps: short ones, and ones that fill a page
\* of the Hays request
RunLens == (0..MaxRun) \cup {top, top + 1}

Run(t, n) == [i \in 1..n |-> t]

Dbs == {Run(3, a) \o Run(2, b) \o Run(1, c) : a, b, c \in RunLens}

\* Hays serves the Top it is asked for; the other services choose the size
PageSizes(s) == IF s = "hays" THEN {top} ELSE {1, 2, DefaultSize}

Slice(from, n) == SubSeq(db, from + 1, Min(from + n, Len(db)))

ServedPage(s, from) ==
    LET sl == Slice(from, psize) IN [i \in 1..Len(sl) |-> Rec(s, Field("ok", sl[i]))]

HaysServed ==
    HaysStep([status |-> "ok", opportunities |-> ServedPage("hays", skip),
              totalCount |-> Field("ok", Len(db))])

IGServed ==
    IGStep([status |-> "ok", blocks |-> ServedPage("ig", (page - 1) * psize)])

JudgeServed ==
    JudgeStep([status |-> "ok", hits |-> ServedPage("judge", page * psize),
               total |-> Field("ok", Len(db)), size |-> Field("ok", psize)])

InitNF == /\ \E s \in Paginating : Start(s) /\ psize \in PageSizes(s)
          /\ db \in Dbs

NextNF == \/ HaysServed
          \/ IGServed
          \/ JudgeServed
          \/ WriteText
          \/ WriteExcel

SpecNF == InitNF /\ [][NextNF]_vars

---------------------------------------------------------------------------
(* Properties *)

\* collection has ended and main holds the returned list
Completed == pc \in {"write_text", "write_excel", "done"}

\* the timestamps of the postings of the result list
Posted(jobs) == [i \in 1..Len(jobs) |-> SortKey(jobs[i])]

\* the last response was a page all of whose records are older than the cutoff
AllOlder == /\ hits /= <<>>
            /\ \A i \in DOMAIN hits :
                  Stamp(script, hits[i]) /= None /\ Stamp(script, hits[i]) < cutoff

\* C1: in all four scripts, at every point of the run, every posting in the
\* accumulated list has a resolved posted timestamp at or after the cutoff.
C1_RetainedAtOrAfterCutoff ==
    \A i \in DOMAIN recent :
        SortKey(recent[i]) /= None /\ SortKey(recent[i]) >= cutoff

\* a completed run that kept some records and left others out
C1_Witness == pc = "done" /\ recent /= <<>> /\ nrec > Len(recent)

\* C2: the list handed to the text and spreadsheet writers is sorted by
\* posted timestamp, newest first, whatever the order of arrival.
C2_OutputNewestFirst ==
    Completed =>
        \A i \in 1..(Len(recent) - 1) :
            SortKey(recent[i]) >= SortKey(recent[i + 1])

\* a completed run whose last page carried an older kept record before a
\* newer one
C2_Witness ==
    /\ pc = "done" /\ status = "ok"
    /\ \E i, j \in DOMAIN hits :
          /\ i < j
          /\ Stamp(script, hits[i]) /= None
          /\ Stamp(script, hits[i]) >= cutoff
          /\ Stamp(script, hits[i]) < Stamp(script, hits[j])

\* C3: the result holds exactly one entry per record of a fetched page whose
\* timestamp resolves and is at or after the cutoff, with multiplicity; after
\* a single fetched page of N records, M of them at or after the cutoff, it
\* has M entries.
C3_OneEntryPerQualifyingRecord ==
    Completed =>
        /\ SeqToBag(Posted(recent)) = expected
        /\ (nreq = 1 /\ status = "ok") =>
              Len(recent) = Len(AtOrAfter(script, hits, cutoff))

\* several pages, some records left out, two kept records with one timestamp
C3_Witness ==
    /\ pc = "done" /\ nreq >= 2 /\ nrec > Len(recent)
    /\ \E i, j \in DOMAIN recent : i /= j /\ recent[i] = recent[j]

\* C4: in the paginating scripts no request follows a fetched page that is
\* empty or whose records are all older than the cutoff.
C4_TerminalPageEndsPagination ==
    [][(/\ script \in Paginating
        /\ status = "ok" /\ nreq > 0
        /\ (hits = <<>> \/ AllOlder)) => nreq' = nreq]_vars

\* the loop was left on a later page whose records are all older
C4_Witness ==
    /\ script \in Paginating /\ status = "ok" /\ nreq >= 2
    /\ AllOlder /\ Completed

\* C5: a record that is malformed or whose timestamp does not parse never
\* aborts the run: only a failed request does.
C5_MalformedRecordNeverAborts ==
    pc = "crashed" => exc \in Failures

\* C6: in Insight Global a failed request never ends the run without output:
\* the loop is left, the postings collected so far are returned newest first,
\* and both files are written.
C6_IGFailureKeepsCollected ==
    (script = "ig" /\ status \in Failures) =>
        /\ pc /= "crashed"
        /\ Completed => SeqToBag(Posted(recent)) = expected
        /\ pc = "done" => textFile.written /\ excelFile.written

\* C7: in Hays, Judge and Yoh a failed request leaves main as an exception:
\* no request follows it and neither file is written.
C7_FailurePropagates ==
    /\ [](script \in {"hays", "judge", "yoh"} /\ status \in Failures
            => /\ pc = "crashed" /\ exc = status
               /\ ~textFile.written /\ ~excelFile.written)
    /\ [][(script \in {"hays", "judge", "yoh"} /\ status \in Failures)
            => (nreq' = nreq /\ textFile' = textFile /\ excelFile' = excelFile)]_vars

\* a request failed after earlier pages had yielded postings
C7_Witness ==
    /\ script \in {"hays", "judge"} /\ status \in Failures
    /\ recent /= <<>> /\ nreq >= 2 /\ pc = "crashed"

\* C8: a completed run writes the sentinel as the only line of the text file
\* when the result is empty, and one line per posting, none of them the
\* sentinel, when it is not.
C8_SentinelOrOneLinePerPosting ==
    /\ pc = "done" => textFile.written
    /\ textFile.written =>
          IF recent = <<>> THEN textFile.content = <<SENTINEL>>
          ELSE /\ Len(textFile.content) = Len(recent)
               /\ \A i \in DOMAIN textFile.content :
                     textFile.content[i] /= SENTINEL

\* records were fetched, none was kept, and the file holds the sentinel
C8_Witness ==
    /\ pc = "done" /\ nrec > 0 /\ recent = <<>>
    /\ textFile.content = <<SENTINEL>>

\* C9 as claimed: every loop is bounded by a count: Insight Global by 50
\* pages, Hays by the total count reported with the first page, Judge by
\* ceil(total/size) of the page just fetched; while a loop goes on its next
\* offset or page index is below that count.
C9_EveryLoopBounded ==
    /\ script = "ig" => nreq <= MAX_PAGES
    /\ (script = "hays" /\ pc = "collect" /\ nreq > 0) =>
          (total /= None /\ skip < total)
    /\ (script = "judge" /\ pc = "collect" /\ nreq > 0) => page < max_pages

\* C9 as amended: Insight Global never requests more than 50 pages; Hays goes
\* on only while its next offset, 50 per page, is below the first non-null
\* total count reported, and Judge only while its next page index is below
\* ceil(total/size) of the page just fetched when that is not 0; without
\* such a count nothing bounds the Hays and Judge loops.
C9_BoundedWhenCounted ==
    /\ script = "ig" => nreq <= MAX_PAGES /\ page <= MAX_PAGES
    /\ (script = "hays" /\ pc = "collect") =>
          /\ skip = top * nreq
          /\ total /= None => skip < total
    /\ (script = "judge" /\ pc = "collect") =>
          /\ page = nreq
          /\ max_pages /= 0 => page < max_pages

\* Insight Global was sent non-empty pages of recent records throughout and
\* stopped at its ceiling
C9_Witness ==
    /\ script = "ig" /\ Completed /\ status = "ok"
    /\ nreq = MAX_PAGES /\ Len(recent) >= MAX_PAGES

\* the records the service holds at or after the cutoff
Qualifying == SelectSeq(db, LAMBDA t : t >= cutoff)

\* C10: served newest first with truthful counts (and, for Insight Global,
\* no more than 50 pages of qualifying records), a run returns every record
\* of the service at or after the cutoff, those exactly at the cutoff
\* included; and the loop is not left on a page whose last record is at or
\* after the cutoff unless the service has no more records (or the ceiling
\* of Insight Global is reached).
C10_EarlyExitLossless ==
    Completed =>
        /\ (script = "ig" => Len(Qualifying) <= MAX_PAGES * psize)
              => Posted(recent) = Qualifying
        /\ (hits /= <<>> /\ Stamp(script, hits[Len(hits)]) >= cutoff)
              => (nrec = Len(db) \/ (script = "ig" /\ page = MAX_PAGES))

\* the loop went past a page ending in a record exactly at the cutoff,
\* kept it, and left early with records of the service unfetched
C10_Witness ==
    /\ pc = "done" /\ nreq >= 2 /\ nrec < Len(db)
    /\ \E i \in DOMAIN recent : recent[i].posted = cutoff
    /\ \E k \in 1..(nreq - 1) : db[k * psize] = cutoff

\* the last response was a page whose last-listed record is older than the
\* cutoff
LastOlder ==
    /\ status = "ok" /\ hits /= <<>>
    /\ Stamp(script, hits[Len(hits)]) /= None
    /\ Stamp(script, hits[Len(hits)]) < cutoff

\* the last response was a page holding a record at or after the cutoff
HasNewer == status = "ok" /\ AtOrAfter(script, hits, cutoff) /= <<>>

\* C11 as claimed: in Hays, Insight Global and Judge the loop does not go on
\* after a page whose last-listed record is older than the cutoff, whatever
\* else the page holds.
C11_StopsOnOlderLastRecord ==
    (script \in Paginating /\ LastOlder) => pc /= "collect"

\* C11 as amended: Hays and Judge do not go on after a page whose last-listed
\* record is older than the cutoff, also when the page holds records at or
\* after the cutoff; Insight Global stops on a page only when none of its
\* records is at or after the cutoff, and after a page that holds one it
\* goes on to the next page, up to its ceiling, even when the last-listed
\* record is older.
C11_StopsOnOlderLastRecordOrWholePage ==
    /\ (script \in {"hays", "judge"} /\ LastOlder) => pc /= "collect"
    /\ (script = "ig" /\ status = "ok" /\ hits /= <<>> /\ ~HasNewer)
          => pc /= "collect"
    /\ (script = "ig" /\ HasNewer /\ pc /= "crashed" /\ nreq < MAX_PAGES)
          => pc = "collect"

\* Hays or Judge left the loop on a page that holds a record at or after the
\* cutoff and ends in an older one, with no count in force to end the loop
C11_Witness ==
    /\ Completed /\ LastOlder /\ HasNewer
    /\ \/ script = "hays" /\ total = None
       \/ script = "judge" /\ max_pages = 0

============================================================================
